---- MODULE Spec2Model ----
(***************************************************************************)
(* A model of the market price tracker's core: the order manager           *)
(* (src/src/order_manager.py) with its two console callers                 *)
(* (src/main_enhanced.py), and the authentication manager                  *)
(* (src/src/auth.py) with the user manager (src/src/user_manager.py),      *)
(* over the store reached through Database.execute_query                   *)
(* (src/src/database.py).                                                  *)
(*                                                                         *)
(* The store is the tables users, user_sessions, orders, order_items and   *)
(* prices (read by the analytics of src/src/analytics.py).                 *)
(* Every execute_query may fail: a write then returns False and changes    *)
(* nothing, a read returns None.  The outcome of each store call is drawn  *)
(* by the action that issues it.                                           *)
(***************************************************************************)
EXTENDS Integers, Sequences, FiniteSets, Bags, TLC

VARIABLES
    users,            \* table users: user_id -> row
    user_sessions,    \* table user_sessions: a set of rows
    current_user,     \* AuthManager.current_user (NoUser for None)
    current_session,  \* AuthManager.current_session (0 for None)
    tokens,           \* number of session tokens generated so far
    now,              \* the clock, in days
    orders,           \* table orders: a sequence, order_id is the index
    order_items,      \* table order_items: a sequence of rows
    prices,           \* table prices of one product: a bag of rows
    stats,            \* what the last statistics query returned, until the
                      \* next operation
    ret,              \* what the last operation returned to its caller
    calls             \* caller -> the call of that caller which is between
                      \* two of its store calls (NoCall for none)

vars == <<users, user_sessions, current_user, current_session, tokens, now,
          orders, order_items, prices, stats, ret, calls>>

authVars == <<users, user_sessions, current_user, current_session, tokens, now>>

orderVars == <<orders, order_items>>

analyticsVars == <<prices, stats>>

(***************************************************************************)
(* Bounds of the model.                                                    *)
(***************************************************************************)
MaxOrders == 1
MaxCreated == 2
MaxItems == 2
MaxLogins == 2
MaxTime == 8
MaxCallers == 2

\* timedelta(days=7): the lifetime of a session, in days.
SessionDays == 7

(***************************************************************************)
(* Values.                                                                 *)
(***************************************************************************)
\* Python's None, for a field that holds a name.
NULL == "NULL"

\* The callers that use the store at the same time, each through managers
\* of its own process.
Callers == 1..MaxCallers

\* A caller with no call under way, and all callers so.
NoCall == [op |-> "none", args |-> <<>>]

NoCalls == [p \in Callers |-> NoCall]

\* AuthManager.current_user = None.
NoUser == [user_id |-> 0, role |-> NULL, status |-> NULL]

SUPER_ADMIN == "super_admin"

SELLER == "seller"

CUSTOMER == "customer"

valid_statuses ==
    <<"pending", "confirmed", "processing", "ready", "completed", "cancelled">>

\* The statuses a caller may pass: the six of valid_statuses and one that is
\* not among them.
StatusInputs == {valid_statuses[i] : i \in DOMAIN valid_statuses} \cup {"shipped"}

\* The statuses cancel_order refuses to leave.
FinalStatuses == {"completed", "cancelled"}

\* The users of the order scenarios: an admin, the sellers of markets 2 and 3
\* and two customers, all active.
OrderUsers ==
    [u \in 1..5 |->
        [username |-> <<"admin", "seller1", "seller2", "customer1", "customer2">>[u],
         email |-> <<"admin@market.rw", "john@market.rw", "alice@market.rw",
                     "sarah@email.rw", "peter@email.rw">>[u],
         role |-> <<SUPER_ADMIN, SELLER, SELLER, CUSTOMER, CUSTOMER>>[u],
         status |-> "active",
         password_hash |-> <<"bcrypt", "secret">>,
         last_login |-> -1]]

\* bcrypt's hash of a password (the salt is left out: checkpw accepts exactly
\* the hashes of the password).
hash_password(password) == <<"bcrypt", password>>

verify_password(password, password_hash) == password_hash = hash_password(password)

\* The users of the authentication scenarios: the admin, and a seller who has
\* registered and awaits approval.
AuthUsers ==
    [u \in 1..2 |->
        [username |-> <<"admin", "seller1">>[u],
         email |-> <<"admin@market.rw", "john@market.rw">>[u],
         role |-> <<SUPER_ADMIN, SELLER>>[u],
         status |-> <<"active", "pending">>[u],
         password_hash |-> hash_password(<<"admin123", "seller123">>[u]),
         last_login |-> -1]]

\* What a caller types at the login prompt.
Identifiers == {"admin", "seller1", "john@market.rw", "nobody"}

Passwords == {"admin123", "seller123", "wrong"}

\* The days by which the clock is moved: a session's lifetime, or a day more.
TickDays == {SessionDays, SessionDays + 1}

\* Table markets: market_id -> row.  No modelled operation writes it.
markets ==
    (2 :> [user_id |-> 2, status |-> "active"]) @@
    (3 :> [user_id |-> 3, status |-> "active"])

\* The cart lines a customer can pick: each carries the market of the price
\* record it was picked from.
Catalogue ==
    { [product_id |-> 1, quantity |-> 3, unit_price |-> 100, market_id |-> 2],
      [product_id |-> 2, quantity |-> 1, unit_price |-> 50, market_id |-> 3] }

\* Every list of at most MaxItems cart lines.
ItemLists == UNION { [1..n -> Catalogue] : n \in 0..MaxItems }

\* The carts of one line.
OneLineCarts == [1..1 -> Catalogue]

(***************************************************************************)
(* Helpers.                                                                *)
(***************************************************************************)
RECURSIVE SumSeq(_)
SumSeq(s) == IF s = <<>> THEN 0 ELSE Head(s) + SumSeq(Tail(s))

RECURSIVE SelectIdx(_, _, _)
\* The elements of s at the indices i (in order) for which keep[i] holds.
SelectIdx(s, keep, i) ==
    IF i > Len(s) THEN <<>>
    ELSE (IF keep[i] THEN <<s[i]>> ELSE <<>>) \o SelectIdx(s, keep, i + 1)

\* The ids of the users with this role.
UsersWithRole(role) == { u \in DOMAIN users : users[u].role = role }

(***************************************************************************)
(* The order manager.  Each operation is an operator from its arguments    *)
(* and the outcomes of its store calls to the tables it leaves and the     *)
(* value it returns.                                                       *)
(***************************************************************************)
\* What a caller of the order manager is told, with the tables left behind.
Result(o, oi, ok, msg, order_id) ==
    [orders |-> o, order_items |-> oi, ok |-> ok, msg |-> msg, order_id |-> order_id]

\* create_order: db.order, db.id and db.items[i] are the outcomes of the
\* INSERT of the order, the SELECT LAST_INSERT_ID() and the INSERT of item i.
create_order(customer_id, market_id, items, db) ==
    LET total_amount ==
            SumSeq([i \in 1..Len(items) |-> items[i].quantity * items[i].unit_price])
        order_id == Len(orders) + 1
        orderRow == [customer_id |-> customer_id, market_id |-> market_id,
                     total_amount |-> total_amount, status |-> "pending",
                     updated_at |-> -1]
        itemRows == [i \in 1..Len(items) |->
                        [order_id |-> order_id,
                         product_id |-> items[i].product_id,
                         quantity |-> items[i].quantity,
                         unit_price |-> items[i].unit_price,
                         subtotal |-> items[i].quantity * items[i].unit_price]]
    IN  IF ~db.order
        THEN Result(orders, order_items, FALSE, "None", 0)
        ELSE IF ~db.id
        THEN \* result is None: result[0] raises TypeError
             Result(Append(orders, orderRow), order_items, FALSE, "TypeError", 0)
        ELSE Result(Append(orders, orderRow),
                    order_items \o SelectIdx(itemRows, db.items, 1),
                    TRUE, "order_id", order_id)

\* get_order_by_id: the rows of orders JOIN users JOIN markets with this id
\* (a failed read returns None, which the caller treats as no row).
get_order_by_id(order_id, okFetch) ==
    IF /\ okFetch
       /\ order_id \in DOMAIN orders
       /\ orders[order_id].customer_id \in DOMAIN users
       /\ orders[order_id].market_id \in DOMAIN markets
    THEN <<orders[order_id]>>
    ELSE <<>>

\* get_order_items: the rows of order_items of this order.
get_order_items(order_id) ==
    SelectSeq(order_items, LAMBDA r : r.order_id = order_id)

\* update_order_status without its check of the new status.
update_order_status_unchecked(order_id, status, okWrite) ==
    IF okWrite
    THEN Result([i \in DOMAIN orders |->
                    IF i = order_id
                    THEN [orders[i] EXCEPT !.status = status, !.updated_at = now]
                    ELSE orders[i]],
                order_items, TRUE, "Order status updated", order_id)
    ELSE Result(orders, order_items, FALSE, "Failed to update order status", order_id)

\* update_order_status whose UPDATE has no WHERE clause.
update_order_status_all_rows(order_id, status, okWrite) ==
    IF status \notin {valid_statuses[i] : i \in DOMAIN valid_statuses}
    THEN Result(orders, order_items, FALSE, "Invalid status", order_id)
    ELSE IF okWrite
    THEN Result([i \in DOMAIN orders |->
                    [orders[i] EXCEPT !.status = status, !.updated_at = now]],
                order_items, TRUE, "Order status updated", order_id)
    ELSE Result(orders, order_items, FALSE, "Failed to update order status", order_id)

\* update_order_status: okWrite is the outcome of the UPDATE.
update_order_status(order_id, status, okWrite) ==
    IF status \notin {valid_statuses[i] : i \in DOMAIN valid_statuses}
    THEN Result(orders, order_items, FALSE, "Invalid status", order_id)
    ELSE IF okWrite
    THEN Result([i \in DOMAIN orders |->
                    IF i = order_id
                    THEN [orders[i] EXCEPT !.status = status, !.updated_at = now]
                    ELSE orders[i]],
                order_items, TRUE, "Order status updated", order_id)
    ELSE Result(orders, order_items, FALSE, "Failed to update order status", order_id)

\* cancel_order without its check of the order's status.
cancel_order_any_status(order_id, user_id, user_role, okFetch, okWrite) ==
    LET found == get_order_by_id(order_id, okFetch)
        order == found[1]
    IN  IF found = <<>>
        THEN Result(orders, order_items, FALSE, "Order not found", order_id)
        ELSE IF user_role # SUPER_ADMIN /\ order.customer_id # user_id
        THEN Result(orders, order_items, FALSE, "No permission", order_id)
        ELSE update_order_status(order_id, "cancelled", okWrite)

\* cancel_order: okFetch and okWrite are the outcomes of its read and of the
\* UPDATE it delegates to.
cancel_order(order_id, user_id, user_role, okFetch, okWrite) ==
    LET found == get_order_by_id(order_id, okFetch)
        order == found[1]
    IN  IF found = <<>>
        THEN Result(orders, order_items, FALSE, "Order not found", order_id)
        ELSE IF user_role # SUPER_ADMIN /\ order.customer_id # user_id
        THEN Result(orders, order_items, FALSE, "No permission", order_id)
        ELSE IF order.status \in FinalStatuses
        THEN Result(orders, order_items, FALSE, "Cannot cancel", order_id)
        ELSE update_order_status(order_id, "cancelled", okWrite)

\* get_seller_market: the active markets of this seller (a failed read
\* returns None).
get_seller_market(user_id, okFetch) ==
    IF okFetch
    THEN { m \in DOMAIN markets :
            markets[m].user_id = user_id /\ markets[m].status = "active" }
    ELSE {}

(***************************************************************************)
(* The actions of the order manager and of its console callers.            *)
(***************************************************************************)
\* The store outcomes one create_order over these items can meet.
CreateOutcomes(items) ==
    [order : BOOLEAN, id : BOOLEAN, items : [1..Len(items) -> BOOLEAN]]

\* Those outcomes in which, once the order row is written, every later store
\* call of create_order succeeds.
WholeOutcomes(items) ==
    { db \in CreateOutcomes(items) : db.id /\ \A i \in 1..Len(items) : db.items[i] }

\* The store outcomes a create_order over these items draws from: every one,
\* or (whole) those in which the calls after the order row's INSERT succeed.
Outcomes(items, whole) ==
    IF whole THEN WholeOutcomes(items) ELSE CreateOutcomes(items)

\* The step that leaves r's tables and returns r to the caller of op.
Returns(op, actor, r) ==
    /\ orders' = r.orders
    /\ order_items' = r.order_items
    /\ ret' = [op |-> op, actor |-> actor, target |-> r.order_id,
               ok |-> r.ok, msg |-> r.msg]
    /\ UNCHANGED <<authVars, analyticsVars, calls>>

\* A call of OrderManager.create_order with one of these item lists, while
\* the store holds fewer than limit orders.
CreateOrder(lists, limit, whole) ==
    /\ Len(orders) < limit
    /\ \E customer_id \in UsersWithRole(CUSTOMER), market_id \in DOMAIN markets,
          items \in lists :
        \E db \in Outcomes(items, whole) :
            Returns("create_order", customer_id,
                    create_order(customer_id, market_id, items, db))

\* The customer menu's place_order with one of these carts: the cart is None
\* (cancelled, the empty list here) or a non-empty list; a cart of several
\* markets is refused before create_order.
PlaceOrder(carts, limit, whole) ==
    /\ Len(orders) < limit
    /\ \E user \in UsersWithRole(CUSTOMER), items \in carts :
        LET market_ids == { items[i].market_id : i \in 1..Len(items) }
        IN  IF items = <<>>
            THEN Returns("place_order", user,
                         Result(orders, order_items, FALSE, "Order cancelled", 0))
            ELSE IF Cardinality(market_ids) > 1
            THEN Returns("place_order", user,
                         Result(orders, order_items, FALSE,
                                "All items must be from the same market", 0))
            ELSE \E db \in Outcomes(items, whole) :
                    Returns("place_order", user,
                            create_order(user, CHOOSE m \in market_ids : TRUE,
                                         items, db))

\* The order ids a caller may pass: those of the store and one beyond.
OrderIds == 1..(Len(orders) + 1)

\* A call of OrderManager.update_order_status.
UpdateOrderStatus ==
    \E order_id \in OrderIds, status \in StatusInputs, okWrite \in BOOLEAN :
        Returns("update_order_status", 0,
                update_order_status(order_id, status, okWrite))

\* The seller menu's choice 4: the seller types any order id and picks one
\* of the six statuses.
SellerOrdersMenu ==
    \E user \in UsersWithRole(SELLER), okMarket \in BOOLEAN :
        IF get_seller_market(user, okMarket) = {}
        THEN Returns("seller_orders_menu", user,
                     Result(orders, order_items, FALSE, "No market", 0))
        ELSE \E order_id \in OrderIds, status_choice \in 1..6,
                okWrite \in BOOLEAN :
                Returns("seller_orders_menu", user,
                        update_order_status(order_id, valid_statuses[status_choice],
                                            okWrite))

\* A call of OrderManager.cancel_order by a user with that user's role.
CancelOrder ==
    \E user \in DOMAIN users, order_id \in OrderIds,
       okFetch \in BOOLEAN, okWrite \in BOOLEAN :
        Returns("cancel_order", user,
                cancel_order(order_id, user, users[user].role, okFetch, okWrite))

(***************************************************************************)
(* The specification of the order lifecycle: the store holds the users and *)
(* markets of the order scenarios and no order.  Orders enter through the  *)
(* customer menu with a cart of one line; the write of the order row may   *)
(* fail, the writes after it succeed (SpecCreate is about their failures). *)
(***************************************************************************)
NoReturn == [op |-> "none", actor |-> 0, target |-> 0, ok |-> TRUE, msg |-> ""]

\* get_product_price_statistics returned None, or has not been called.
NoStats ==
    [min_price |-> 0, max_price |-> 0, avg_price |-> 0, data_points |-> 0,
     trend |-> NULL]

Init ==
    /\ users = OrderUsers
    /\ user_sessions = {}
    /\ current_user = NoUser
    /\ current_session = 0
    /\ tokens = 0
    /\ now = 0
    /\ orders = <<>>
    /\ order_items = <<>>
    /\ prices = EmptyBag
    /\ stats = NoStats
    /\ ret = NoReturn
    /\ calls = NoCalls

Next ==
    \/ PlaceOrder(OneLineCarts, MaxOrders, TRUE)
    \/ UpdateOrderStatus
    \/ SellerOrdersMenu
    \/ CancelOrder

Spec == Init /\ [][Next]_vars

(***************************************************************************)
(* The specification of order creation: every item list of at most         *)
(* MaxItems lines, through create_order itself and through the customer    *)
(* menu.                                                                   *)
(***************************************************************************)
NextCreate ==
    \/ CreateOrder(ItemLists, MaxCreated, FALSE)
    \/ PlaceOrder(ItemLists, MaxCreated, FALSE)

SpecCreate == Init /\ [][NextCreate]_vars

(***************************************************************************)
(* The authentication manager and the user manager.                        *)
(***************************************************************************)
\* What a caller of the authentication manager is told, with the store and
\* the manager's fields left behind.
AuthResult(u, us, cu, cs, t, ok, msg) ==
    [users |-> u, user_sessions |-> us, current_user |-> cu,
     current_session |-> cs, tokens |-> t, ok |-> ok, msg |-> msg]

\* An operation that changes nothing and returns this.
AuthUnchanged(ok, msg) ==
    AuthResult(users, user_sessions, current_user, current_session, tokens, ok, msg)

\* The rows login's SELECT returns (none when the read fails).
login_results(username_or_email, okFetch) ==
    IF okFetch
    THEN { u \in DOMAIN users :
            /\ users[u].username = username_or_email
               \/ users[u].email = username_or_email
            /\ users[u].status # "deleted" }
    ELSE {}

\* login without its check for a pending account.
login_no_pending_check(first, password, okInsert, okUpdate) ==
    IF first = 0
    THEN AuthUnchanged(FALSE, "Invalid username or password")
    ELSE IF users[first].status = "suspended"
    THEN AuthUnchanged(FALSE, "Your account has been suspended")
    ELSE IF ~verify_password(password, users[first].password_hash)
    THEN AuthUnchanged(FALSE, "Invalid username or password")
    ELSE AuthResult(
            IF okUpdate THEN [users EXCEPT ![first].last_login = now] ELSE users,
            IF okInsert
            THEN user_sessions \cup
                    {[user_id |-> first, session_token |-> tokens + 1,
                      expires_at |-> now + SessionDays]}
            ELSE user_sessions,
            [user_id |-> first, role |-> users[first].role,
             status |-> users[first].status],
            tokens + 1, tokens + 1, TRUE, "Welcome back")

\* login after its SELECT: first is the row the store returned first (0 when
\* it returned none), okInsert and okUpdate the outcomes of the INSERT into
\* user_sessions and of the UPDATE of last_login.
login(first, password, okInsert, okUpdate) ==
    IF first = 0
    THEN AuthUnchanged(FALSE, "Invalid username or password")
    ELSE IF users[first].status = "suspended"
    THEN AuthUnchanged(FALSE, "Your account has been suspended")
    ELSE IF users[first].status = "pending"
    THEN AuthUnchanged(FALSE, "Your account is pending approval")
    ELSE IF ~verify_password(password, users[first].password_hash)
    THEN AuthUnchanged(FALSE, "Invalid username or password")
    ELSE LET session_token == tokens + 1
             expires_at == now + SessionDays
         IN  AuthResult(
                IF okUpdate
                THEN [users EXCEPT ![first].last_login = now]
                ELSE users,
                IF okInsert
                THEN user_sessions \cup
                        {[user_id |-> first, session_token |-> session_token,
                          expires_at |-> expires_at]}
                ELSE user_sessions,
                [user_id |-> first, role |-> users[first].role,
                 status |-> users[first].status],
                session_token, session_token, TRUE, "Welcome back")

\* logout: okDelete is the outcome of the DELETE.
logout(okDelete) ==
    IF current_session # 0
    THEN AuthResult(
            users,
            IF okDelete
            THEN { r \in user_sessions : r.session_token # current_session }
            ELSE user_sessions,
            NoUser, 0, tokens, TRUE, "True")
    ELSE AuthUnchanged(FALSE, "False")

is_authenticated == current_user # NoUser

\* clean_expired_sessions with <= for <.
clean_sessions_expiring_now(okDelete) ==
    IF okDelete
    THEN AuthResult(users, { r \in user_sessions : ~(r.expires_at <= now) },
                    current_user, current_session, tokens, TRUE, "True")
    ELSE AuthUnchanged(FALSE, "False")

\* clean_expired_sessions: DELETE ... WHERE expires_at < NOW().
clean_expired_sessions(okDelete) ==
    IF okDelete
    THEN AuthResult(users, { r \in user_sessions : ~(r.expires_at < now) },
                    current_user, current_session, tokens, TRUE, "True")
    ELSE AuthUnchanged(FALSE, "False")

\* The roles of table users.
Roles == {SUPER_ADMIN, SELLER, CUSTOMER}

\* UPDATE users SET status = ... WHERE user_id = ... for a row whose role the
\* WHERE clause admits.
set_status(user_id, status, roles, okWrite, done, failed) ==
    IF okWrite
    THEN AuthResult([u \in DOMAIN users |->
                        IF u = user_id /\ users[u].role \in roles
                        THEN [users[u] EXCEPT !.status = status]
                        ELSE users[u]],
                    user_sessions, current_user, current_session, tokens,
                    TRUE, done)
    ELSE AuthUnchanged(FALSE, failed)

approve_seller(user_id, okWrite) ==
    set_status(user_id, "active", {SELLER}, okWrite,
               "Seller account approved", "Failed to approve seller")

suspend_user(user_id, okWrite) ==
    set_status(user_id, "suspended", Roles, okWrite,
               "User account suspended", "Failed to suspend user")

activate_user(user_id, okWrite) ==
    set_status(user_id, "active", Roles, okWrite,
               "User account activated", "Failed to activate user")

delete_user(user_id, okWrite) ==
    set_status(user_id, "deleted", Roles, okWrite,
               "User deleted", "Failed to delete user")

(***************************************************************************)
(* The actions of the authentication manager and the user manager.         *)
(***************************************************************************)
\* The step that leaves r's store and fields and returns r to the caller.
AuthReturns(op, target, r) ==
    /\ users' = r.users
    /\ user_sessions' = r.user_sessions
    /\ current_user' = r.current_user
    /\ current_session' = r.current_session
    /\ tokens' = r.tokens
    /\ ret' = [op |-> op, actor |-> 0, target |-> target, ok |-> r.ok, msg |-> r.msg]
    /\ UNCHANGED <<now, orders, order_items, analyticsVars, calls>>

Login ==
    /\ tokens < MaxLogins
    /\ \E username_or_email \in Identifiers, password \in Passwords,
          okFetch \in BOOLEAN, okInsert \in BOOLEAN, okUpdate \in BOOLEAN :
        LET results == login_results(username_or_email, okFetch)
        IN  \E first \in (IF results = {} THEN {0} ELSE results) :
                AuthReturns("login", first, login(first, password, okInsert, okUpdate))

Logout ==
    \E okDelete \in BOOLEAN : AuthReturns("logout", 0, logout(okDelete))

CleanExpiredSessions ==
    \E okDelete \in BOOLEAN :
        AuthReturns("clean_expired_sessions", 0, clean_expired_sessions(okDelete))

ApproveSeller ==
    \E user_id \in DOMAIN users, okWrite \in BOOLEAN :
        AuthReturns("approve_seller", user_id, approve_seller(user_id, okWrite))

SuspendUser ==
    \E user_id \in DOMAIN users, okWrite \in BOOLEAN :
        AuthReturns("suspend_user", user_id, suspend_user(user_id, okWrite))

ActivateUser ==
    \E user_id \in DOMAIN users, okWrite \in BOOLEAN :
        AuthReturns("activate_user", user_id, activate_user(user_id, okWrite))

DeleteUser ==
    \E user_id \in DOMAIN users, okWrite \in BOOLEAN :
        AuthReturns("delete_user", user_id, delete_user(user_id, okWrite))

\* Time passes.
Tick ==
    /\ \E d \in TickDays :
        /\ now + d <= MaxTime
        /\ now' = now + d
    /\ UNCHANGED <<users, user_sessions, current_user, current_session, tokens,
                   orders, order_items, prices, stats, ret, calls>>

(***************************************************************************)
(* The specification of authentication: one AuthManager over a store that  *)
(* holds the users of the authentication scenarios and no session.         *)
(***************************************************************************)
InitAuth ==
    /\ users = AuthUsers
    /\ user_sessions = {}
    /\ current_user = NoUser
    /\ current_session = 0
    /\ tokens = 0
    /\ now = 0
    /\ orders = <<>>
    /\ order_items = <<>>
    /\ prices = EmptyBag
    /\ stats = NoStats
    /\ ret = NoReturn
    /\ calls = NoCalls

NextAuth ==
    \/ Login
    \/ Logout
    \/ CleanExpiredSessions
    \/ ApproveSeller
    \/ SuspendUser
    \/ ActivateUser
    \/ DeleteUser
    \/ Tick

SpecAuth == InitAuth /\ [][NextAuth]_vars

(***************************************************************************)
(* Properties of the order lifecycle (Spec).                               *)
(***************************************************************************)
\* The operations that reach update_order_status with a caller's status.
StatusUpdates == {"update_order_status", "seller_orders_menu"}

\* C1: once an order's status is completed or cancelled, no step changes
\* it, and every update_order_status on that order is rejected.
C1_TerminalStatusKept ==
    [][\A i \in DOMAIN orders :
          orders[i].status \in FinalStatuses =>
              /\ orders'[i].status = orders[i].status
              /\ (ret'.op \in StatusUpdates /\ ret'.target = i) => ~ret'.ok]_vars

\* C2: a seller's status update on an order of a market the seller does not
\* own is refused and leaves the order as it was.
C2_SellerUpdatesOwnMarketOnly ==
    [][\A i \in DOMAIN orders :
          ( /\ ret'.op = "seller_orders_menu"
            /\ ret'.target = i
            /\ ret'.msg # "No market"
            /\ markets[orders[i].market_id].user_id # ret'.actor )
          => /\ ~ret'.ok
             /\ orders'[i] = orders[i]]_vars

\* C3: a cancel_order on an order whose status is completed or cancelled
\* returns a failure and leaves the order as it was, whoever calls it.
C3_CancelRefusedOnFinal ==
    [][\A i \in DOMAIN orders :
          ( /\ ret'.op = "cancel_order"
            /\ ret'.target = i
            /\ orders[i].status \in FinalStatuses )
          => /\ ~ret'.ok
             /\ orders'[i] = orders[i]]_vars

\* C3's case: the admin's cancel_order of a completed order was refused.
C3_Witness ==
    /\ ret.op = "cancel_order"
    /\ ret.actor \in UsersWithRole(SUPER_ADMIN)
    /\ ret.target \in DOMAIN orders
    /\ orders[ret.target].status = "completed"
    /\ ret.msg = "Cannot cancel"

(***************************************************************************)
(* Properties of order creation (SpecCreate).                              *)
(***************************************************************************)
\* The market a product's cart line comes from.
MarketOfProduct(product_id) ==
    (CHOOSE line \in Catalogue : line.product_id = product_id).market_id

\* The markets the stored items of an order come from.
MarketsOfOrder(order_id) ==
    LET rows == get_order_items(order_id)
    IN  { MarketOfProduct(rows[k].product_id) : k \in 1..Len(rows) }

\* The sum of the subtotals (quantity x unit_price) of an order's stored items.
ItemsTotal(order_id) ==
    LET rows == get_order_items(order_id)
    IN  SumSeq([k \in 1..Len(rows) |-> rows[k].quantity * rows[k].unit_price])

\* C4: after a create_order that returned success, the order's total_amount
\* is the sum of the subtotals of the items stored for it.
C4_TotalIsSumOfStoredItems ==
    (ret.op \in {"create_order", "place_order"} /\ ret.ok) =>
        /\ ret.target \in DOMAIN orders
        /\ orders[ret.target].total_amount = ItemsTotal(ret.target)
        /\ \A k \in 1..Len(order_items) :
              order_items[k].subtotal =
                  order_items[k].quantity * order_items[k].unit_price

\* C5: no order exists whose items come from two or more markets
\* (create_order with such items creates no order row and no item).
C5_NoMixedMarketOrder ==
    \A i \in DOMAIN orders : Cardinality(MarketsOfOrder(i)) <= 1

\* C6: no order with total 0 and no items exists (create_order with an
\* empty item list inserts no order row).
C6_NoEmptyOrder ==
    \A i \in DOMAIN orders :
        ~(orders[i].total_amount = 0 /\ get_order_items(i) = <<>>)

(***************************************************************************)
(* Properties of authentication (SpecAuth).                                *)
(***************************************************************************)
\* C7: a login succeeds, inserts a session row and sets the current user
\* only for an identity that is active when it is called; a login that
\* fails inserts no session row and leaves current_user and
\* current_session as they were.
C7_LoginOnlyActive ==
    [][/\ \A r \in user_sessions' \ user_sessions :
              users[r.user_id].status = "active"
       /\ (ret'.op = "login" /\ ret'.ok) =>
              /\ ret'.target \in DOMAIN users
              /\ users[ret'.target].status = "active"
              /\ current_user'.user_id = ret'.target
       /\ (ret'.op = "login" /\ ~ret'.ok) =>
              /\ user_sessions' = user_sessions
              /\ current_user' = current_user
              /\ current_session' = current_session
       /\ (current_user' # current_user /\ current_user' # NoUser) =>
              users[current_user'.user_id].status = "active"]_vars

\* C7's case: the login of a suspended identity was refused while another
\* login's session was current.
C7_Witness ==
    /\ ret.op = "login"
    /\ ~ret.ok
    /\ ret.target \in DOMAIN users
    /\ users[ret.target].status = "suspended"
    /\ current_session # 0

\* C8: a login with a password that does not match fails with the
\* invalid-credentials result, whatever the status of the account.
C8_WrongPasswordSameResult ==
    \A username_or_email \in Identifiers, password \in Passwords,
       okFetch \in BOOLEAN, okInsert \in BOOLEAN, okUpdate \in BOOLEAN :
        LET results == login_results(username_or_email, okFetch)
        IN  \A first \in results :
                ~verify_password(password, users[first].password_hash) =>
                    login(first, password, okInsert, okUpdate).msg
                        = "Invalid username or password"

\* C9: the holder of a session is treated as authenticated only until the
\* session's expiry, which is its issuance plus 7 days.
C9_NotAuthenticatedAfterExpiry ==
    \A r \in user_sessions :
        (is_authenticated /\ r.session_token = current_session) =>
            now <= r.expires_at

\* C10: after a logout that found a current session, the session's row is
\* absent and current_user and current_session are cleared; a logout with
\* no current session returns without raising and changes neither the
\* store nor the manager's fields, so a second logout leaves the state of
\* the first.
C10_LogoutIdempotent ==
    [][ret'.op = "logout" =>
          IF current_session # 0
          THEN /\ ret'.ok
               /\ current_user' = NoUser
               /\ current_session' = 0
               /\ \A r \in user_sessions' : r.session_token # current_session
          ELSE /\ ret'.msg \in {"True", "False"}
               /\ UNCHANGED <<users, user_sessions, current_user,
                              current_session>>]_vars

\* C11: a clean_expired_sessions that returns success removes exactly the
\* session rows whose expiry has passed (expires_at < now); one that returns
\* failure removes none; either way every other session row and every user
\* row is left as it was, so a second call right after changes nothing.
C11_CleanRemovesExactlyExpired ==
    [][ret'.op = "clean_expired_sessions" =>
          /\ users' = users
          /\ user_sessions' \subseteq user_sessions
          /\ ret'.ok =>
                \A r \in user_sessions : r \in user_sessions' <=> now <= r.expires_at
          /\ ~ret'.ok => user_sessions' = user_sessions
          /\ ret'.ok =>
                \A r \in user_sessions' : now <= r.expires_at]_vars

\* C11's case: a clean_expired_sessions succeeded and kept a session whose
\* expiry is the present moment.
C11_Witness ==
    /\ ret.op = "clean_expired_sessions"
    /\ ret.ok
    /\ \E r \in user_sessions : r.expires_at = now

(***************************************************************************)
(* The authorization checks (src/src/permissions.py).  A user argument is  *)
(* a User object, here its user_id, role and status, or None (NoUser); a   *)
(* check's value is taken by its truth (`user and ...` is falsy on None).  *)
(***************************************************************************)
\* The callers of a check: the users of the store, and 0 for None.
Actors == DOMAIN users \cup {0}

\* The User object of a caller.
User(u) ==
    IF u = 0 THEN NoUser
    ELSE [user_id |-> u, role |-> users[u].role, status |-> users[u].status]

\* Table products: product_id -> row, the products of the Catalogue with
\* the sellers who own them.
products ==
    (1 :> [user_id |-> 2, market_id |-> 2]) @@
    (2 :> [user_id |-> 3, market_id |-> 3])

is_super_admin(user) == user # NoUser /\ user.role = SUPER_ADMIN

is_seller(user) == user # NoUser /\ user.role = SELLER

is_customer(user) == user # NoUser /\ user.role = CUSTOMER

can_manage_users(user) == is_super_admin(user)

can_manage_all_products(user) == is_super_admin(user)

can_manage_own_products(user) == is_super_admin(user) \/ is_seller(user)

can_edit_product(user, product) ==
    IF is_super_admin(user) THEN TRUE
    ELSE IF is_seller(user) /\ product.user_id = user.user_id THEN TRUE
    ELSE FALSE

can_manage_all_markets(user) == is_super_admin(user)

can_manage_own_market(user) == is_super_admin(user) \/ is_seller(user)

can_edit_market(user, market) ==
    IF is_super_admin(user) THEN TRUE
    ELSE IF is_seller(user) /\ market.user_id = user.user_id THEN TRUE
    ELSE FALSE

can_place_orders(user) == is_customer(user) \/ is_super_admin(user)

\* can_view_order without its comparison of the order's customer.
can_view_order_any_customer(user, order) ==
    IF is_super_admin(user) THEN TRUE
    ELSE IF is_customer(user) THEN TRUE
    ELSE IF is_seller(user) THEN TRUE
    ELSE FALSE

can_view_order(user, order) ==
    IF is_super_admin(user) THEN TRUE
    ELSE IF is_customer(user) /\ order.customer_id = user.user_id THEN TRUE
    ELSE IF is_seller(user) THEN TRUE
    ELSE FALSE

can_manage_order(user, order) ==
    IF is_super_admin(user) THEN TRUE
    ELSE IF is_seller(user) THEN TRUE
    ELSE FALSE

\* can_cancel_order in which the admin is held to the order's status too.
can_cancel_order_not_final(user, order) ==
    IF is_super_admin(user) /\ order.status \notin FinalStatuses THEN TRUE
    ELSE IF /\ is_customer(user)
            /\ order.customer_id = user.user_id
            /\ order.status \notin FinalStatuses
    THEN TRUE
    ELSE FALSE

can_cancel_order(user, order) ==
    IF is_super_admin(user) THEN TRUE
    ELSE IF /\ is_customer(user)
            /\ order.customer_id = user.user_id
            /\ order.status \notin FinalStatuses
    THEN TRUE
    ELSE FALSE

can_view_analytics(user) == TRUE

can_export_reports(user) == TRUE

can_approve_sellers(user) == is_super_admin(user)

get_user_capabilities(user) ==
    IF user = NoUser THEN <<>>
    ELSE IF is_super_admin(user)
    THEN <<"manage_users", "approve_sellers", "manage_all_products",
           "manage_all_markets", "view_all_orders", "manage_all_orders",
           "view_analytics", "export_reports", "system_admin">>
    ELSE IF is_seller(user)
    THEN <<"manage_own_products", "manage_own_market", "view_own_orders",
           "manage_own_orders", "view_analytics", "export_reports">>
    ELSE IF is_customer(user)
    THEN <<"browse_products", "place_orders", "view_own_orders",
           "cancel_own_orders", "view_analytics", "export_reports">>
    ELSE <<>>

\* The elements of a list.
Range(s) == { s[i] : i \in DOMAIN s }

\* Every capability get_user_capabilities can list.
Capabilities ==
    UNION { Range(get_user_capabilities([user_id |-> 1, role |-> r, status |-> "active"])) :
            r \in Roles }

(***************************************************************************)
(* The actions of the authorization checks: each applies one check to a    *)
(* caller and a row of the store and returns its value.                    *)
(***************************************************************************)
\* The step that returns a check's value and changes nothing else.
Checked(op, actor, target, value, msg) ==
    /\ ret' = [op |-> op, actor |-> actor, target |-> target, ok |-> value, msg |-> msg]
    /\ UNCHANGED <<authVars, orderVars, analyticsVars, calls>>

CanManageUsers ==
    \E u \in Actors : Checked("can_manage_users", u, 0, can_manage_users(User(u)), "")

CanApproveSellers ==
    \E u \in Actors :
        Checked("can_approve_sellers", u, 0, can_approve_sellers(User(u)), "")

CanManageProducts ==
    \E u \in Actors :
        \/ Checked("can_manage_all_products", u, 0, can_manage_all_products(User(u)), "")
        \/ Checked("can_manage_own_products", u, 0, can_manage_own_products(User(u)), "")

CanManageMarkets ==
    \E u \in Actors :
        \/ Checked("can_manage_all_markets", u, 0, can_manage_all_markets(User(u)), "")
        \/ Checked("can_manage_own_market", u, 0, can_manage_own_market(User(u)), "")

CanEditProduct ==
    \E u \in Actors, product_id \in DOMAIN products :
        Checked("can_edit_product", u, product_id,
                can_edit_product(User(u), products[product_id]), "")

CanEditMarket ==
    \E u \in Actors, market_id \in DOMAIN markets :
        Checked("can_edit_market", u, market_id,
                can_edit_market(User(u), markets[market_id]), "")

CanPlaceOrders ==
    \E u \in Actors : Checked("can_place_orders", u, 0, can_place_orders(User(u)), "")

CanViewOrder ==
    \E u \in Actors, order_id \in DOMAIN orders :
        Checked("can_view_order", u, order_id,
                can_view_order(User(u), orders[order_id]), "")

CanManageOrder ==
    \E u \in Actors, order_id \in DOMAIN orders :
        Checked("can_manage_order", u, order_id,
                can_manage_order(User(u), orders[order_id]), "")

CanCancelOrder ==
    \E u \in Actors, order_id \in DOMAIN orders :
        Checked("can_cancel_order", u, order_id,
                can_cancel_order(User(u), orders[order_id]), "")

CanViewAnalytics ==
    \E u \in Actors :
        Checked("can_view_analytics", u, 0, can_view_analytics(User(u)), "")

CanExportReports ==
    \E u \in Actors :
        Checked("can_export_reports", u, 0, can_export_reports(User(u)), "")

\* get_user_capabilities, asked whether it lists this capability.
GetUserCapabilities ==
    \E u \in Actors, capability \in Capabilities :
        Checked("get_user_capabilities", u, 0,
                capability \in Range(get_user_capabilities(User(u))), capability)

(***************************************************************************)
(* The specification of authorization: the store holds the users of the    *)
(* order scenarios and one order, placed by a customer from a cart of one  *)
(* line and since brought to any of the six statuses; the checks and       *)
(* cancel_order are applied to it.                                         *)
(***************************************************************************)
InitPerm ==
    /\ users = OrderUsers
    /\ user_sessions = {}
    /\ current_user = NoUser
    /\ current_session = 0
    /\ tokens = 0
    /\ now = 0
    /\ \E customer_id \in UsersWithRole(CUSTOMER), line \in Catalogue,
          status \in Range(valid_statuses) :
        /\ orders = <<[customer_id |-> customer_id, market_id |-> line.market_id,
                       total_amount |-> line.quantity * line.unit_price,
                       status |-> status,
                       updated_at |-> IF status = "pending" THEN -1 ELSE 0]>>
        /\ order_items = <<[order_id |-> 1, product_id |-> line.product_id,
                            quantity |-> line.quantity,
                            unit_price |-> line.unit_price,
                            subtotal |-> line.quantity * line.unit_price]>>
    /\ prices = EmptyBag
    /\ stats = NoStats
    /\ ret = NoReturn
    /\ calls = NoCalls

NextPerm ==
    \/ CanManageUsers
    \/ CanApproveSellers
    \/ CanManageProducts
    \/ CanManageMarkets
    \/ CanEditProduct
    \/ CanEditMarket
    \/ CanPlaceOrders
    \/ CanViewOrder
    \/ CanManageOrder
    \/ CanCancelOrder
    \/ CanViewAnalytics
    \/ CanExportReports
    \/ GetUserCapabilities
    \/ CancelOrder

SpecPerm == InitPerm /\ [][NextPerm]_vars

(***************************************************************************)
(* Properties of authorization (SpecPerm).                                 *)
(***************************************************************************)
\* The ten checks an admin is to pass.
AdminChecks ==
    {"can_manage_users", "can_approve_sellers", "can_edit_product",
     "can_edit_market", "can_place_orders", "can_view_order",
     "can_manage_order", "can_cancel_order", "can_view_analytics",
     "can_export_reports"}

\* C12: every one of the ten permission checks returns true for an admin,
\* whatever the product, market or order it is asked about.
C12_AdminPermittedEverything ==
    (ret.op \in AdminChecks /\ ret.actor \in UsersWithRole(SUPER_ADMIN)) => ret.ok

\* C12's case: the admin was asked about cancelling a customer's completed
\* order and the check returned true.
C12_Witness ==
    /\ ret.op = "can_cancel_order"
    /\ ret.actor \in UsersWithRole(SUPER_ADMIN)
    /\ orders[ret.target].status = "completed"
    /\ orders[ret.target].customer_id # ret.actor
    /\ ret.ok

\* C13: for a seller, can_edit_product, can_edit_market, can_view_order and
\* can_manage_order return true only for a product or market the seller
\* owns and for an order of a market the seller owns.
C13_SellerOwnResourcesOnly ==
    (ret.actor \in UsersWithRole(SELLER) /\ ret.ok) =>
        /\ ret.op = "can_edit_product" => products[ret.target].user_id = ret.actor
        /\ ret.op = "can_edit_market" => markets[ret.target].user_id = ret.actor
        /\ ret.op \in {"can_view_order", "can_manage_order"} =>
              markets[orders[ret.target].market_id].user_id = ret.actor

\* C14: for a customer and another customer's order, can_view_order and
\* can_cancel_order are false and cancel_order fails (with the permission
\* error when its read succeeds) and leaves the order as it was; for the
\* customer's own order, can_cancel_order is true, and cancel_order over a
\* working store succeeds, exactly when the status is neither completed nor
\* cancelled; can_manage_order is false for every customer.
C14_CustomerOwnOrdersOnly ==
    \A u \in UsersWithRole(CUSTOMER), i \in DOMAIN orders :
        LET user == User(u)
            order == orders[i]
        IN  /\ ~can_manage_order(user, order)
            /\ order.customer_id # u =>
                  /\ ~can_view_order(user, order)
                  /\ ~can_cancel_order(user, order)
                  /\ \A okFetch \in BOOLEAN, okWrite \in BOOLEAN :
                        LET r == cancel_order(i, u, user.role, okFetch, okWrite)
                        IN  /\ ~r.ok
                            /\ r.orders = orders
                            /\ okFetch => r.msg = "No permission"
            /\ order.customer_id = u =>
                  /\ can_cancel_order(user, order) <=>
                        order.status \notin FinalStatuses
                  /\ cancel_order(i, u, user.role, TRUE, TRUE).ok <=>
                        order.status \notin FinalStatuses

\* C14's case: a customer's cancel_order of another customer's order was
\* refused with the permission error.
C14_Witness ==
    /\ ret.op = "cancel_order"
    /\ ret.actor \in UsersWithRole(CUSTOMER)
    /\ ret.target \in DOMAIN orders
    /\ orders[ret.target].customer_id # ret.actor
    /\ orders[ret.target].status \notin FinalStatuses
    /\ ret.msg = "No permission"

\* C15: for every user and every order of the store, cancel_order over a
\* working store succeeds if and only if can_cancel_order returns true.
C15_CancelIsCanCancel ==
    \A u \in DOMAIN users, i \in DOMAIN orders :
        cancel_order(i, u, users[u].role, TRUE, TRUE).ok
            <=> can_cancel_order(User(u), orders[i])

\* What the check that corresponds to a capability returns for a user
\* (listed stands for the answer where no check corresponds).
CheckOf(user, capability, listed) ==
    CASE capability = "manage_users" -> can_manage_users(user)
      [] capability = "approve_sellers" -> can_approve_sellers(user)
      [] capability = "manage_all_products" -> can_manage_all_products(user)
      [] capability = "manage_all_markets" -> can_manage_all_markets(user)
      [] capability = "place_orders" -> can_place_orders(user)
      [] capability = "cancel_own_orders" ->
            can_cancel_order(user, [customer_id |-> user.user_id, status |-> "pending"])
      [] capability = "view_analytics" -> can_view_analytics(user)
      [] capability = "export_reports" -> can_export_reports(user)
      [] OTHER -> listed

\* C16: for a user of each role, get_user_capabilities lists a capability
\* exactly when the corresponding check permits it to that user.
C16_CapabilitiesMatchChecks ==
    (ret.op = "get_user_capabilities" /\ ret.actor # 0) =>
        (ret.ok <=> CheckOf(User(ret.actor), ret.msg, ret.ok))

(***************************************************************************)
(* More properties of the order lifecycle (Spec).                          *)
(***************************************************************************)
\* C17: update_order_status with a status outside the six valid ones fails
\* with the invalid-status result and writes nothing: the tables are left
\* as they were, whatever the order id and the state of the store.
C17_InvalidStatusRejected ==
    \A order_id \in OrderIds, status \in StatusInputs \ Range(valid_statuses),
       okWrite \in BOOLEAN :
        LET r == update_order_status(order_id, status, okWrite)
        IN  /\ ~r.ok
            /\ r.msg = "Invalid status"
            /\ r.orders = orders
            /\ r.order_items = order_items

\* C17's case: an update_order_status on a stored order was refused for its
\* status.
C17_Witness ==
    /\ ret.op = "update_order_status"
    /\ ret.target \in DOMAIN orders
    /\ ~ret.ok
    /\ ret.msg = "Invalid status"

(***************************************************************************)
(* The specification of the frame of a transition: the store holds two     *)
(* orders of different customers and markets, each with its item;          *)
(* update_order_status and cancel_order are applied to them.               *)
(***************************************************************************)
\* The orders of the frame scenarios, with their items.
FrameCarts == <<[product_id |-> 1, quantity |-> 3, unit_price |-> 100, market_id |-> 2],
                [product_id |-> 2, quantity |-> 1, unit_price |-> 50, market_id |-> 3]>>

InitFrame ==
    /\ users = OrderUsers
    /\ user_sessions = {}
    /\ current_user = NoUser
    /\ current_session = 0
    /\ tokens = 0
    /\ now = 0
    /\ orders = [i \in 1..2 |->
                    [customer_id |-> 3 + i, market_id |-> FrameCarts[i].market_id,
                     total_amount |-> FrameCarts[i].quantity * FrameCarts[i].unit_price,
                     status |-> "pending", updated_at |-> -1]]
    /\ order_items = [i \in 1..2 |->
                        [order_id |-> i, product_id |-> FrameCarts[i].product_id,
                         quantity |-> FrameCarts[i].quantity,
                         unit_price |-> FrameCarts[i].unit_price,
                         subtotal |-> FrameCarts[i].quantity * FrameCarts[i].unit_price]]
    /\ prices = EmptyBag
    /\ stats = NoStats
    /\ ret = NoReturn
    /\ calls = NoCalls

NextFrame ==
    \/ UpdateOrderStatus
    \/ CancelOrder

SpecFrame == InitFrame /\ [][NextFrame]_vars

\* C18: a step of update_order_status or cancel_order removes no order and
\* leaves the items table as it was; it changes no order but its target,
\* and of the target nothing but status and updated_at; and a create_order
\* from the same state would keep every stored order and item as it is.
C18_TransitionFrame ==
    [][/\ DOMAIN orders' = DOMAIN orders
       /\ order_items' = order_items
       /\ \A i \in DOMAIN orders :
             /\ i # ret'.target => orders'[i] = orders[i]
             /\ orders'[i].total_amount = orders[i].total_amount
             /\ orders'[i].customer_id = orders[i].customer_id
             /\ orders'[i].market_id = orders[i].market_id
       /\ \A customer_id \in UsersWithRole(CUSTOMER), market_id \in DOMAIN markets,
             items \in OneLineCarts :
             \A db \in CreateOutcomes(items) :
                LET r == create_order(customer_id, market_id, items, db)
                IN  /\ SubSeq(r.orders, 1, Len(orders)) = orders
                    /\ SubSeq(r.order_items, 1, Len(order_items)) = order_items]_vars

\* C18's case: order 1 was cancelled with success while order 2 is still as
\* it was placed.
C18_Witness ==
    /\ ret.op = "cancel_order"
    /\ ret.ok
    /\ ret.target = 1
    /\ orders[1].status = "cancelled"
    /\ orders[1].updated_at = now
    /\ orders[2].status = "pending"
    /\ orders[2].updated_at = -1

(***************************************************************************)
(* More properties of authentication (SpecAuth).                           *)
(***************************************************************************)
\* C19: create_order returns success only if the INSERT of the order row
\* and of every item row succeeded, and login returns success only if the
\* INSERT of the session row succeeded.
C19_NoSwallowedStorageFailure ==
    /\ \A customer_id \in {4}, market_id \in DOMAIN markets, items \in OneLineCarts :
          \A db \in CreateOutcomes(items) :
             create_order(customer_id, market_id, items, db).ok =>
                 /\ db.order
                 /\ \A i \in 1..Len(items) : db.items[i]
    /\ \A first \in DOMAIN users, password \in Passwords,
          okInsert \in BOOLEAN, okUpdate \in BOOLEAN :
          login(first, password, okInsert, okUpdate).ok => okInsert

(***************************************************************************)
(* The price table and the statistics of a product                         *)
(* (src/src/price_manager.py, src/src/analytics.py).  A price is a         *)
(* DECIMAL(10, 2), held in hundredths; a date is a day of the clock and    *)
(* CURDATE() is now.  The rows are those of one product, and market_id is  *)
(* None in every query.                                                    *)
(***************************************************************************)
MaxPrices == 3

\* days=30, the default window of the statistics.
WindowDays == 30

\* The prices a caller records (validate_price admits 0 to 1,000,000):
\* nothing, and three prices 5% apart.
PriceInputs == {0, 95, 100, 105}

\* The dates a caller records, as days from today: before the window, in
\* its older half, in its recent half, and tomorrow.
DateInputs == {-31, -20, -15, 1}

\* How the double-precision value of (recent - older) / older * 100 stands
\* to the exact one: below, equal or above (1.05 and 1.00 give
\* 5.000000000000004).  The error is far smaller than the distance of any
\* quotient of two averages from 5 or -5 unless the exact value is 5 or -5.
FloatErrors == {-1, 0, 1}

\* The rows of the table with date >= DATE_SUB(CURDATE(), INTERVAL days DAY).
WindowRows(days) == { r \in BagToSet(prices) : r.date >= now - days }

\* The rows the CASE of _calculate_trend labels 'recent', and those it
\* labels 'older'.
RecentRows(days) == { r \in WindowRows(days) : r.date >= now - (days \div 2) }

OlderRows(days) == WindowRows(days) \ RecentRows(days)

RECURSIVE CountRows(_)
\* COUNT(*) over these rows of the table.
CountRows(rows) ==
    IF rows = {} THEN 0
    ELSE LET r == CHOOSE x \in rows : TRUE
         IN  CopiesIn(r, prices) + CountRows(rows \ {r})

RECURSIVE SumPrices(_)
\* SUM(price) over these rows of the table.
SumPrices(rows) ==
    IF rows = {} THEN 0
    ELSE LET r == CHOOSE x \in rows : TRUE
         IN  CopiesIn(r, prices) * r.price + SumPrices(rows \ {r})

\* AVG(price) over these rows (not none): a DECIMAL of six places, rounded
\* half up, held in millionths.
AvgPrice(rows) ==
    (SumPrices(rows) * 10000 + CountRows(rows) \div 2) \div CountRows(rows)

\* MIN(price) and MAX(price) over these rows (not none).
MinPrice(rows) == CHOOSE x \in { r.price : r \in rows } :
                      \A r \in rows : x <= r.price

MaxPrice(rows) == CHOOSE x \in { r.price : r \in rows } :
                      \A r \in rows : x >= r.price

\* The sign of an integer.
Sgn(x) == IF x > 0 THEN 1 ELSE IF x < 0 THEN -1 ELSE 0

\* How change_percent, as computed, stands to a bound: the exact sign of
\* (recent - older) / older * 100 - bound unless that is 0, and the float
\* error then.
ChangeAgainst(recent, older, bound, err) ==
    LET d == (recent - older) * 100 - bound * older
        exact == IF older > 0 THEN Sgn(d) ELSE -Sgn(d)
    IN  IF exact = 0 THEN err ELSE exact

\* _calculate_trend: okFetch is the outcome of its read, err the float error
\* of change_percent.  The read returns one row per period that has data.
calculate_trend(days, okFetch, err) ==
    IF okFetch /\ RecentRows(days) # {} /\ OlderRows(days) # {}
    THEN LET recent == AvgPrice(RecentRows(days))
             older == AvgPrice(OlderRows(days))
         IN  IF recent # 0 /\ older # 0
             THEN IF ChangeAgainst(recent, older, 5, err) > 0 THEN "increasing"
                  ELSE IF ChangeAgainst(recent, older, -5, err) < 0 THEN "decreasing"
                  ELSE "stable"
             ELSE "unknown"
    ELSE "unknown"

\* get_product_price_statistics: okStats and okTrend are the outcomes of
\* its read and of the read of _calculate_trend.
get_product_price_statistics(days, okStats, okTrend, err) ==
    IF okStats /\ CountRows(WindowRows(days)) > 0
    THEN [min_price |-> MinPrice(WindowRows(days)),
          max_price |-> MaxPrice(WindowRows(days)),
          avg_price |-> AvgPrice(WindowRows(days)),
          data_points |-> CountRows(WindowRows(days)),
          trend |-> calculate_trend(days, okTrend, err)]
    ELSE NoStats

\* A call of PriceManager.add_price with any price and date.
AddPrice ==
    /\ BagCardinality(prices) < MaxPrices
    /\ \E price \in PriceInputs, d \in DateInputs, okWrite \in BOOLEAN :
        /\ prices' = IF okWrite
                     THEN prices (+) SetToBag({[price |-> price, date |-> now + d]})
                     ELSE prices
        /\ ret' = [op |-> "add_price", actor |-> 0, target |-> 0, ok |-> okWrite,
                   msg |-> ""]
    /\ stats' = NoStats
    /\ UNCHANGED <<authVars, orderVars, calls>>

\* A call of Analytics.get_product_price_statistics with the default window.
GetProductPriceStatistics ==
    \E okStats \in BOOLEAN, okTrend \in BOOLEAN, err \in FloatErrors :
        /\ stats' = get_product_price_statistics(WindowDays, okStats, okTrend, err)
        /\ ret' = [op |-> "get_product_price_statistics", actor |-> 0, target |-> 0,
                   ok |-> stats' # NoStats, msg |-> stats'.trend]
        /\ UNCHANGED <<authVars, orderVars, prices, calls>>

(***************************************************************************)
(* The specification of the statistics: the price table starts empty.      *)
(***************************************************************************)
InitTrend ==
    /\ users = OrderUsers
    /\ user_sessions = {}
    /\ current_user = NoUser
    /\ current_session = 0
    /\ tokens = 0
    /\ now = 0
    /\ orders = <<>>
    /\ order_items = <<>>
    /\ prices = EmptyBag
    /\ stats = NoStats
    /\ ret = NoReturn
    /\ calls = NoCalls

NextTrend ==
    \/ AddPrice
    \/ GetProductPriceStatistics

SpecTrend == InitTrend /\ [][NextTrend]_vars

\* The trend of two averages by the rule of 5%, in exact arithmetic, for a
\* positive older average.
TrendOf(recent, older) ==
    IF (recent - older) * 100 > 5 * older THEN "increasing"
    ELSE IF (recent - older) * 100 < -5 * older THEN "decreasing"
    ELSE "stable"

\* C20: when both halves of the window hold rows and the older average is
\* not zero, the trend over a working store is increasing if the recent
\* average exceeds the older one by more than 5%, decreasing if it is more
\* than 5% below, and stable otherwise, a recent average of 0 included.
C20_TrendFromAverages ==
    ( /\ RecentRows(WindowDays) # {}
      /\ OlderRows(WindowDays) # {}
      /\ AvgPrice(OlderRows(WindowDays)) # 0 ) =>
        \A err \in FloatErrors :
            calculate_trend(WindowDays, TRUE, err)
                = TrendOf(AvgPrice(RecentRows(WindowDays)),
                          AvgPrice(OlderRows(WindowDays)))

(***************************************************************************)
(* The window of the statistics as the specification states it: the days   *)
(* from today - windowDays to today, and its two halves.                   *)
(***************************************************************************)
InWindow(days) ==
    { r \in BagToSet(prices) : now - days <= r.date /\ r.date <= now }

RecentHalf(days) == { r \in InWindow(days) : r.date >= now - (days \div 2) }

OlderHalf(days) == InWindow(days) \ RecentHalf(days)

\* C21: when the table holds records in the window and all of them have the
\* same price, the statistics over a working store carry the trend stable,
\* whatever the dates of the records in the window and whatever the price.
C21_ConstantPriceIsStable ==
    \A p \in PriceInputs :
        ( /\ InWindow(WindowDays) # {}
          /\ \A r \in InWindow(WindowDays) : r.price = p ) =>
            \A err \in FloatErrors :
                get_product_price_statistics(WindowDays, TRUE, TRUE, err).trend
                    = "stable"

\* C22: the trend is unknown whenever the recent half or the older half of
\* the window holds no record, and whenever the average of the older half
\* is zero, whether the read succeeds or not.
C22_UnknownWithoutBothHalves ==
    ( \/ RecentHalf(WindowDays) = {}
      \/ OlderHalf(WindowDays) = {}
      \/ AvgPrice(OlderHalf(WindowDays)) = 0 ) =>
        \A okFetch \in BOOLEAN, err \in FloatErrors :
            calculate_trend(WindowDays, okFetch, err) = "unknown"

\* C23: a record dated before today - windowDays or after today never
\* contributes: recording one leaves the statistics over a working store
\* (minimum, maximum, average, count and trend) as they were.
C23_OutsideWindowNeverContributes ==
    [][ \A r \in [price : PriceInputs, date : { now + d : d \in DateInputs }] :
            ( /\ prices' = prices (+) SetToBag({r})
              /\ r.date < now - WindowDays \/ r.date > now ) =>
                \A err \in FloatErrors :
                    get_product_price_statistics(WindowDays, TRUE, TRUE, err)'
                        = get_product_price_statistics(WindowDays, TRUE, TRUE, err)
      ]_vars

(***************************************************************************)
(* The forecast series of a product (src/src/analytics.py): the price      *)
(* records of the last 60 days in the order of their dates, each with the  *)
(* moving average of seven records.  A quotient sum / n is held as the     *)
(* pair of its sum (in hundredths) and n.                                   *)
(***************************************************************************)
MaxSeries == 8

\* days=60, the window of get_price_forecast_data.
ForecastDays == 60

\* The records of the moving average.
MovingRecords == 7

\* The prices of the recorded series.
SeriesPrices == {95, 105}

RECURSIVE OrderedRows(_)
\* These rows of the table ORDER BY date ASC, each as often as the table
\* holds it.  Rows of one date come in an order the query leaves to the
\* market names; the tables of the forecast hold one record a day.
OrderedRows(rows) ==
    IF rows = {} THEN <<>>
    ELSE LET r == CHOOSE x \in rows : \A y \in rows : x.date <= y.date
         IN  [i \in 1..CopiesIn(r, prices) |-> r] \o OrderedRows(rows \ {r})

\* get_price_trend_data: okFetch is the outcome of its read; a failed read
\* gives the empty list.
get_price_trend_data(days, okFetch) ==
    IF okFetch THEN OrderedRows(WindowRows(days)) ELSE <<>>

\* sum(prices[lo..hi]) / n.
Quotient(series, lo, hi, n) ==
    [sum |-> SumSeq([k \in 1..(hi - lo + 1) |-> series[lo + k - 1].price]),
     over |-> n]

\* What get_price_forecast_data returns when it returns None.
NoForecast == [returned |-> "None", points |-> <<>>]

\* get_price_forecast_data: None for fewer than seven records, and else
\* the records with their moving averages.  Index i here is index i - 1 of
\* the code.
get_price_forecast_data(okFetch) ==
    LET trend_data == get_price_trend_data(ForecastDays, okFetch)
    IN  IF trend_data = <<>> \/ Len(trend_data) < MovingRecords
        THEN NoForecast
        ELSE [returned |-> "list",
              points |->
                [i \in 1..Len(trend_data) |->
                    [date |-> trend_data[i].date,
                     price |-> trend_data[i].price,
                     moving_avg |->
                        IF i - 1 < MovingRecords - 1
                        THEN Quotient(trend_data, 1, i, i)
                        ELSE Quotient(trend_data, i - (MovingRecords - 1), i,
                                      MovingRecords)]]]

\* A call of Analytics.get_price_forecast_data.
GetPriceForecastData ==
    \E okFetch \in BOOLEAN :
        /\ stats' = get_price_forecast_data(okFetch)
        /\ ret' = [op |-> "get_price_forecast_data", actor |-> 0, target |-> 0,
                   ok |-> stats' # NoForecast, msg |-> ""]
        /\ UNCHANGED <<authVars, orderVars, prices, calls>>

(***************************************************************************)
(* The specification of the forecast: the table holds one record a day for *)
(* the last days up to today.                                               *)
(***************************************************************************)
InitForecast ==
    /\ users = OrderUsers
    /\ user_sessions = {}
    /\ current_user = NoUser
    /\ current_session = 0
    /\ tokens = 0
    /\ now = 0
    /\ orders = <<>>
    /\ order_items = <<>>
    /\ \E n \in 0..MaxSeries :
        \E recorded \in [1..n -> SeriesPrices] :
            prices = SetToBag({ [price |-> recorded[i], date |-> now - n + i] :
                                i \in 1..n })
    /\ stats = NoStats
    /\ ret = NoReturn
    /\ calls = NoCalls

NextForecast == GetPriceForecastData

SpecForecast == InitForecast /\ [][NextForecast]_vars

\* C24: for every non-empty series of n price records, the forecast over a
\* working store is a series of exactly n points, point i being record i
\* with the average of the seven records ending at i, or of all records up
\* to i when fewer than seven are available.
C24_MovingAverageAligned ==
    LET series == OrderedRows(WindowRows(ForecastDays))
        n == Len(series)
        forecast == get_price_forecast_data(TRUE)
    IN  n >= 1 =>
            /\ forecast.returned = "list"
            /\ Len(forecast.points) = n
            /\ \A i \in 1..n :
                LET lo == IF i >= MovingRecords THEN i - MovingRecords + 1 ELSE 1
                IN  /\ forecast.points[i].date = series[i].date
                    /\ forecast.points[i].price = series[i].price
                    /\ forecast.points[i].moving_avg
                            = Quotient(series, lo, i, i - lo + 1)

(***************************************************************************)
(* The status of an account and its sessions (src/src/user_manager.py,     *)
(* src/src/auth.py).                                                        *)
(***************************************************************************)
\* C25: approve_seller changes the status of a seller account that is
\* pending and of no other account: a suspended or deleted seller and an
\* account of another role keep their status.
C25_ApproveOnlyPending ==
    [][ ret'.op = "approve_seller" =>
            \A u \in DOMAIN users :
                ~(users[u].role = SELLER /\ users[u].status = "pending") =>
                    users'[u].status = users[u].status ]_vars

\* C27: the AuthManager does not report as authenticated an identity whose
\* account is suspended or deleted.
C27_NotAuthenticatedOnceInactive ==
    is_authenticated =>
        users[current_user.user_id].status \notin {"suspended", "deleted"}

\* C28: a logout that returns true over a working store leaves no session
\* row in the store, whatever logins and logouts came before (every row of
\* the store was issued through this AuthManager).
C28_LogoutLeavesNoSession ==
    current_session # 0 =>
        /\ logout(TRUE).ok
        /\ logout(TRUE).user_sessions = {}

(***************************************************************************)
(* Soft deletion (src/src/user_manager.py).  The columns full_name and     *)
(* phone_number are not held: update_user_info is told only whether a      *)
(* value is given for them.                                                 *)
(***************************************************************************)
\* The e-mail addresses given to update_user_info: none, and a new one.
EmailInputs == {NULL, "new@market.rw"}

\* update_user_info: okWrite is the outcome of its UPDATE.
update_user_info(user_id, full_name, email, phone_number, okWrite) ==
    IF ~full_name /\ email = NULL /\ ~phone_number
    THEN AuthUnchanged(FALSE, "No updates provided")
    ELSE IF okWrite
    THEN AuthResult([users EXCEPT ![user_id].email =
                                    IF email # NULL THEN email ELSE @],
                    user_sessions, current_user, current_session, tokens,
                    TRUE, "User information updated")
    ELSE AuthUnchanged(FALSE, "Failed to update user information")

UpdateUserInfo ==
    \E user_id \in DOMAIN users, full_name \in BOOLEAN, email \in EmailInputs,
       phone_number \in BOOLEAN, okWrite \in BOOLEAN :
        AuthReturns("update_user_info", user_id,
                    update_user_info(user_id, full_name, email, phone_number,
                                     okWrite))

\* The specification of soft deletion: delete_user has just marked the
\* seller's account deleted; the user manager and the login go on.
InitDeleted ==
    /\ users = [u \in DOMAIN AuthUsers |->
                    IF AuthUsers[u].role = SELLER
                    THEN [AuthUsers[u] EXCEPT !.status = "deleted"]
                    ELSE AuthUsers[u]]
    /\ user_sessions = {}
    /\ current_user = NoUser
    /\ current_session = 0
    /\ tokens = 0
    /\ now = 0
    /\ orders = <<>>
    /\ order_items = <<>>
    /\ prices = EmptyBag
    /\ stats = NoStats
    /\ ret = NoReturn
    /\ calls = NoCalls

NextDeleted ==
    \/ Login
    \/ ApproveSeller
    \/ SuspendUser
    \/ ActivateUser
    \/ DeleteUser
    \/ UpdateUserInfo

SpecDeleted == InitDeleted /\ [][NextDeleted]_vars

\* C26: once delete_user has marked the seller's account deleted, no
\* sequence of operations of the user manager makes a login with that
\* account succeed.
C26_DeletedNeverLogsIn ==
    ~(ret.op = "login" /\ ret.ok /\ ret.target \in UsersWithRole(SELLER))

(***************************************************************************)
(* cancel_order among other callers (src/src/order_manager.py).  Its read  *)
(* of the order and the UPDATE it delegates to are two store calls; the    *)
(* store serializes single calls, and calls of other callers may come      *)
(* between the two.                                                         *)
(***************************************************************************)
\* cancel_order up to its UPDATE: the read of the order and the checks on
\* the row read.  The call returns here when a check fails, and otherwise
\* goes on to its UPDATE.
CancelRead(p) ==
    /\ calls[p] = NoCall
    /\ \E user \in DOMAIN users, order_id \in OrderIds, okFetch \in BOOLEAN :
        LET found == get_order_by_id(order_id, okFetch)
            order == found[1]
            user_role == users[user].role
        IN  IF found = <<>>
            THEN Returns("cancel_order", user,
                         Result(orders, order_items, FALSE, "Order not found",
                                order_id))
            ELSE IF user_role # SUPER_ADMIN /\ order.customer_id # user
            THEN Returns("cancel_order", user,
                         Result(orders, order_items, FALSE, "No permission",
                                order_id))
            ELSE IF order.status \in FinalStatuses
            THEN Returns("cancel_order", user,
                         Result(orders, order_items, FALSE, "Cannot cancel",
                                order_id))
            ELSE /\ calls' = [calls EXCEPT ![p] =
                                [op |-> "cancel_order", args |-> <<order_id, user>>]]
                 /\ UNCHANGED <<authVars, orderVars, analyticsVars, ret>>

\* The last step of cancel_order: update_order_status(order_id, 'cancelled')
\* and the return of its result.
CancelWrite(p) ==
    /\ calls[p].op = "cancel_order"
    /\ \E okWrite \in BOOLEAN :
        LET r == update_order_status(calls[p].args[1], "cancelled", okWrite)
        IN  /\ orders' = r.orders
            /\ order_items' = r.order_items
            /\ ret' = [op |-> "cancel_order", actor |-> calls[p].args[2],
                       target |-> r.order_id, ok |-> r.ok, msg |-> r.msg]
    /\ calls' = [calls EXCEPT ![p] = NoCall]
    /\ UNCHANGED <<authVars, analyticsVars>>

\* The specification of concurrent cancellation: the two pending orders of
\* the frame scenarios, callers that cancel and callers that update.
InitCancel == InitFrame

NextCancel ==
    \/ UpdateOrderStatus
    \/ \E p \in Callers : CancelRead(p)
    \/ \E p \in Callers : CancelWrite(p)

SpecCancel == InitCancel /\ [][NextCancel]_vars

\* C29: in every interleaving of cancel_order with the status updates of
\* other callers, a cancellation writes cancelled only over a status that
\* is, at the moment of the write, neither completed nor cancelled: no step
\* of cancel_order changes the status of a completed or cancelled order.
C29_CancelWriteSeesCurrentStatus ==
    [][ ret'.op = "cancel_order" =>
            \A o \in DOMAIN orders :
                orders[o].status \in FinalStatuses =>
                    orders'[o].status = orders[o].status ]_vars

(***************************************************************************)
(* register_user among other callers (src/src/auth.py).  Its check for an  *)
(* existing row and its INSERT are two store calls, and calls of other     *)
(* callers may come between the two.  Table users is the set of identity   *)
(* records the specification describes: the store serializes the writes    *)
(* and adds no rule of its own on the rows.                                *)
(***************************************************************************)
MaxUsers == 3

\* The registrations a caller submits: with the admin's username, with the
\* seller's e-mail address, and with a username and address not yet used.
RegisterInputs ==
    { [username |-> "admin", email |-> "mary@email.rw", role |-> CUSTOMER],
      [username |-> "mary", email |-> "john@market.rw", role |-> CUSTOMER],
      [username |-> "mary", email |-> "mary@email.rw", role |-> SELLER] }

\* The rows of SELECT user_id FROM users WHERE username = %s OR email = %s
\* (a failed read returns None, which register_user treats as no row).
existing_users(username, email, okFetch) ==
    IF okFetch
    THEN { u \in DOMAIN users :
            users[u].username = username \/ users[u].email = email }
    ELSE {}

\* INSERT INTO users: the new row gets the next user_id.
insert_user(username, email, password, role, okWrite) ==
    IF okWrite
    THEN Append(users,
                [username |-> username, email |-> email, role |-> role,
                 status |-> IF role = SELLER THEN "pending" ELSE "active",
                 password_hash |-> hash_password(password),
                 last_login |-> -1])
    ELSE users

\* register_user up to its INSERT: the check for an existing row.  The call
\* returns here when a row exists, and otherwise goes on to its INSERT.
RegisterCheck(p) ==
    /\ calls[p] = NoCall
    /\ Len(users) < MaxUsers
    /\ \E new \in RegisterInputs, okFetch \in BOOLEAN :
        IF existing_users(new.username, new.email, okFetch) # {}
        THEN AuthReturns("register_user", 0,
                         AuthUnchanged(FALSE, "Username or email already exists"))
        ELSE /\ calls' = [calls EXCEPT ![p] =
                            [op |-> "register_user",
                             args |-> <<new.username, new.email, new.role>>]]
             /\ UNCHANGED <<authVars, orderVars, analyticsVars, ret>>

\* The last step of register_user: the INSERT and the return.
RegisterInsert(p) ==
    /\ calls[p].op = "register_user"
    /\ \E okWrite \in BOOLEAN :
        /\ users' = insert_user(calls[p].args[1], calls[p].args[2], "seller123",
                                calls[p].args[3], okWrite)
        /\ ret' = [op |-> "register_user", actor |-> 0,
                   target |-> IF okWrite THEN Len(users) + 1 ELSE 0,
                   ok |-> okWrite,
                   msg |-> IF ~okWrite THEN "Registration failed"
                           ELSE IF calls[p].args[3] = SELLER
                           THEN "Registration successful, pending approval"
                           ELSE "Registration successful"]
    /\ calls' = [calls EXCEPT ![p] = NoCall]
    /\ UNCHANGED <<user_sessions, current_user, current_session, tokens, now,
                   orderVars, analyticsVars>>

\* The specification of concurrent registration: the users of the
\* authentication scenarios, the seller pending or soft-deleted.
InitRegister ==
    /\ \E status \in {"pending", "deleted"} :
        users = [u \in DOMAIN AuthUsers |->
                    IF AuthUsers[u].role = SELLER
                    THEN [AuthUsers[u] EXCEPT !.status = status]
                    ELSE AuthUsers[u]]
    /\ user_sessions = {}
    /\ current_user = NoUser
    /\ current_session = 0
    /\ tokens = 0
    /\ now = 0
    /\ orders = <<>>
    /\ order_items = <<>>
    /\ prices = EmptyBag
    /\ stats = NoStats
    /\ ret = NoReturn
    /\ calls = NoCalls

NextRegister ==
    \/ \E p \in Callers : RegisterCheck(p)
    \/ \E p \in Callers : RegisterInsert(p)

SpecRegister == InitRegister /\ [][NextRegister]_vars

\* C30: no two identities share a username or an e-mail address, in every
\* interleaving of register_user calls and whatever the status of the
\* identities.
C30_UsernameAndEmailUnique ==
    \A u \in DOMAIN users, v \in DOMAIN users :
        u # v => /\ users[u].username # users[v].username
                 /\ users[u].email # users[v].email

====
